---- MODULE Spec2Model ----
(***************************************************************************)
(* Municipal debt capacity and repayment planner: the calculation engine   *)
(* (pmt, pv, computeCapacity, buildSchedule, minDSCR) and the page's       *)
(* recomputation of capacity, schedule and minimum DSCR from the inputs.   *)
(*                                                                         *)
(* Numbers.  A JavaScript number is modelled as a pair <<n, d>>:           *)
(*   d > 0          the exact rational n/d in lowest terms,                *)
(*   <<1, 0>>       +Infinity,   <<-1, 0>>  -Infinity,   <<0, 0>>  NaN.    *)
(* The special values follow IEEE-754 (x/0, Inf-Inf, 0*Inf, comparisons    *)
(* with NaN are false, Math.max/Math.min return NaN on a NaN argument).    *)
(* Rounding of binary floating point and the sign of zero are not          *)
(* modelled: finite arithmetic is exact.                                   *)
(***************************************************************************)
EXTENDS Integers, Sequences, FiniteSets, TLC

\* ------------------------------------------------------------------ numbers

Abs(n) == IF n < 0 THEN -n ELSE n

RECURSIVE GCD(_, _)
GCD(a, b) == IF b = 0 THEN a ELSE GCD(b, a % b)

NaN    == <<0, 0>>
PosInf == <<1, 0>>
NegInf == <<-1, 0>>
Zero   == <<0, 1>>
One    == <<1, 1>>

\* the rational n/d, d # 0, in lowest terms with a positive denominator
Norm(n, d) ==
  LET g == GCD(Abs(n), Abs(d))
      s == IF d < 0 THEN -1 ELSE 1
  IN  <<(s * n) \div g, Abs(d) \div g>>

Q(n) == <<n, 1>>
Frac(n, d) == Norm(n, d)

IsNaN(a)    == a = NaN
IsFinite(a) == a[2] > 0
Sign(a)     == IF a[1] > 0 THEN 1 ELSE IF a[1] < 0 THEN -1 ELSE 0

Neg(a) == <<-a[1], a[2]>>

Add(a, b) ==
  IF IsNaN(a) \/ IsNaN(b) THEN NaN
  ELSE IF a[2] = 0 /\ b[2] = 0 THEN (IF a = b THEN a ELSE NaN)
  ELSE IF a[2] = 0 THEN a
  ELSE IF b[2] = 0 THEN b
  ELSE LET g == GCD(a[2], b[2])
       IN  Norm(a[1] * (b[2] \div g) + b[1] * (a[2] \div g), (a[2] \div g) * b[2])

Sub(a, b) == Add(a, Neg(b))

Mul(a, b) ==
  IF IsNaN(a) \/ IsNaN(b) THEN NaN
  ELSE IF a[2] = 0 \/ b[2] = 0
       THEN (IF Sign(a) * Sign(b) = 0 THEN NaN
             ELSE IF Sign(a) * Sign(b) > 0 THEN PosInf ELSE NegInf)
  ELSE LET g1 == GCD(Abs(a[1]), b[2])
           g2 == GCD(Abs(b[1]), a[2])
       IN  <<(a[1] \div g1) * (b[1] \div g2), (a[2] \div g2) * (b[2] \div g1)>>

Div(a, b) ==
  IF IsNaN(a) \/ IsNaN(b) THEN NaN
  ELSE IF b[2] = 0 THEN (IF a[2] = 0 THEN NaN ELSE Zero)
  ELSE IF a[2] = 0 THEN (IF Sign(b) < 0 THEN Neg(a) ELSE a)
  ELSE IF b[1] = 0
       THEN (IF a[1] = 0 THEN NaN ELSE IF a[1] > 0 THEN PosInf ELSE NegInf)
  ELSE Mul(a, IF b[1] > 0 THEN <<b[2], b[1]>> ELSE <<-b[2], -b[1]>>)

\* n1/d1 < n2/d2 for finite operands, by continued fractions (no cross products)
RECURSIVE LtFin(_, _, _, _)
LtFin(n1, d1, n2, d2) ==
  LET f1 == n1 \div d1
      f2 == n2 \div d2
      r1 == n1 % d1
      r2 == n2 % d2
  IN  IF f1 # f2 THEN f1 < f2
      ELSE IF r2 = 0 THEN FALSE
      ELSE IF r1 = 0 THEN TRUE
      ELSE LtFin(d2, r2, d1, r1)

\* the comparison operators of the language: false when an operand is NaN
Lt(a, b) ==
  /\ ~IsNaN(a) /\ ~IsNaN(b) /\ a # b
  /\ IF a[2] = 0 THEN a = NegInf
     ELSE IF b[2] = 0 THEN b = PosInf
     ELSE LtFin(a[1], a[2], b[1], b[2])
Le(a, b) == ~IsNaN(a) /\ ~IsNaN(b) /\ (a = b \/ Lt(a, b))
Gt(a, b) == Lt(b, a)
Ge(a, b) == Le(b, a)
StrictEq(a, b) == ~IsNaN(a) /\ a = b

MathMax(a, b) == IF IsNaN(a) \/ IsNaN(b) THEN NaN ELSE IF Lt(a, b) THEN b ELSE a
MathMin(a, b) == IF IsNaN(a) \/ IsNaN(b) THEN NaN ELSE IF Lt(b, a) THEN b ELSE a

MathAbs(a) == IF IsNaN(a) THEN NaN ELSE <<Abs(a[1]), a[2]>>

\* Math.floor of a finite number, as an integer
MathFloor(a) == a[1] \div a[2]

\* Math.pow(b, k) for a finite base and an integer exponent
RECURSIVE PowNat(_, _)
PowNat(b, k) == IF k = 0 THEN One ELSE Mul(b, PowNat(b, k - 1))

MathPow(b, k) == IF k >= 0 THEN PowNat(b, k) ELSE Div(One, PowNat(b, -k))

\* x || 0 : 0 and NaN are falsy
OrZero(a) == IF a = <<>> \/ IsNaN(a) \/ a = Zero THEN Zero ELSE a

\* truthiness of a number
Truthy(a) == a # <<>> /\ ~IsNaN(a) /\ a # Zero

\* ------------------------------------------------------- time-value primitives

\* the zero-rate branch left out
pmt_NoZeroRate(rate, nper, pvAmt, fv, type) ==
  IF nper <= 0 THEN Zero
  ELSE LET pow == MathPow(Add(One, rate), nper)
       IN  Div(Mul(rate, Add(Mul(pvAmt, pow), fv)),
               Mul(Add(One, Mul(rate, type)), Sub(pow, One)))

\* the guard on the number of periods written nper < 0
pmt_NegGuard(rate, nper, pvAmt, fv, type) ==
  IF nper < 0 THEN Zero
  ELSE IF rate = Zero THEN Div(Add(pvAmt, fv), Q(nper))
  ELSE LET pow == MathPow(Add(One, rate), nper)
       IN  Div(Mul(rate, Add(Mul(pvAmt, pow), fv)),
               Mul(Add(One, Mul(rate, type)), Sub(pow, One)))

pmt(rate, nper, pvAmt, fv, type) ==
  IF nper <= 0 THEN Zero
  ELSE IF rate = Zero THEN Div(Add(pvAmt, fv), Q(nper))
  ELSE LET pow == MathPow(Add(One, rate), nper)
       IN  Div(Mul(rate, Add(Mul(pvAmt, pow), fv)),
               Mul(Add(One, Mul(rate, type)), Sub(pow, One)))

\* the discount factor raised to +nper
pv_PosExponent(rate, nper, pmtAmt, fv, type) ==
  IF nper <= 0 THEN Zero
  ELSE IF rate = Zero THEN Add(Mul(pmtAmt, Q(nper)), fv)
  ELSE LET factor == Div(Sub(One, MathPow(Add(One, rate), nper)), rate)
       IN  Add(Mul(Mul(pmtAmt, Add(One, Mul(rate, type))), factor),
               Mul(fv, MathPow(Add(One, rate), nper)))

\* the future value dropped from the zero-rate branch
pv_NoFv(rate, nper, pmtAmt, fv, type) ==
  IF nper <= 0 THEN Zero
  ELSE IF rate = Zero THEN Mul(pmtAmt, Q(nper))
  ELSE LET factor == Div(Sub(One, MathPow(Add(One, rate), -nper)), rate)
       IN  Add(Mul(Mul(pmtAmt, Add(One, Mul(rate, type))), factor),
               Mul(fv, MathPow(Add(One, rate), -nper)))

pv(rate, nper, pmtAmt, fv, type) ==
  IF nper <= 0 THEN Zero
  ELSE IF rate = Zero THEN Add(Mul(pmtAmt, Q(nper)), fv)
  ELSE LET factor == Div(Sub(One, MathPow(Add(One, rate), -nper)), rate)
       IN  Add(Mul(Mul(pmtAmt, Add(One, Mul(rate, type))), factor),
               Mul(fv, MathPow(Add(One, rate), -nper)))

\* ------------------------------------------------------------------ engine

NULL == <<>>

\* src/lib/finance.ts: three revenue components, opex is the sum of the breakdown
getTotalRevenue(i) ==
  Add(Add(i.localRevenuePAD, i.balancingFundPerimbangan), i.otherLegalRevenue)

getTotalOpex(i) ==
  Add(Add(i.personnelExpenses, i.goodsServicesExpenses), i.capitalExpenditures)

\* the later revision of the engine: six revenue components, single opex line
getTotalRevenue2(i) ==
  Add(Add(Add(Add(Add(i.localRevenuePAD, i.balancingFundPerimbangan),
                  i.otherTransferCentral), i.transferSharingTax),
          i.otherFinancialAid), i.otherLegalRevenue)

getTotalOpex2(i) ==
  IF Truthy(i.operatingExpenses) THEN i.operatingExpenses
  ELSE Add(Add(OrZero(i.personnelExpenses), OrZero(i.goodsServicesExpenses)),
           OrZero(i.capitalExpenditures))

getNettFinancing(i) == Sub(i.financingReceipts, i.financingExpenditures)

TotalRevenue(v, i) == IF v = "finance_ts" THEN getTotalRevenue(i) ELSE getTotalRevenue2(i)
TotalOpex(v, i)    == IF v = "finance_ts" THEN getTotalOpex(i) ELSE getTotalOpex2(i)

\* the operating margin taken with the sign reversed
NOIOf_Reversed(totalRevenue, nettFinancing, totalOpex) ==
  MathMax(Sub(totalOpex, Add(totalRevenue, nettFinancing)), Zero)

NOIOf(totalRevenue, nettFinancing, totalOpex) ==
  MathMax(Sub(Add(totalRevenue, nettFinancing), totalOpex), Zero)

\* the statutory share written 0.075
maxDebtRevenueRuleOf_Tenth(totalRevenue) == Mul(Frac(3, 40), totalRevenue)

maxDebtRevenueRuleOf(totalRevenue) == Mul(Frac(3, 4), totalRevenue)

\* NOI multiplied by the coverage floor instead of divided
maxAnnualDSOf_Times(NOI, i) == Mul(NOI, i.minDSCR)

maxAnnualDSOf(NOI, i) == Div(NOI, i.minDSCR)

\* the annuity discounted over the whole term instead of the post-grace years
pvAnnuityAfterGraceOf_WholeTerm(i, maxAnnualDS) ==
  IF i.termYears > 0
  THEN Div(pv(i.rate, i.termYears, maxAnnualDS, Zero, Zero),
           MathPow(Add(One, i.rate), i.graceYears))
  ELSE Zero

pvAnnuityAfterGraceOf(i, maxAnnualDS) ==
  LET amortYears == IF i.termYears - i.graceYears > 0 THEN i.termYears - i.graceYears ELSE 0
  IN  IF amortYears > 0
      THEN Div(pv(i.rate, amortYears, maxAnnualDS, Zero, Zero),
               MathPow(Add(One, i.rate), i.graceYears))
      ELSE Zero

capFromInterestOnlyOf(i, maxAnnualDS) ==
  IF Gt(i.rate, Zero) THEN Div(maxAnnualDS, i.rate) ELSE PosInf

dscrPVOf(pvAnnuityAfterGrace, capFromInterestOnly) ==
  MathMin(OrZero(pvAnnuityAfterGrace), capFromInterestOnly)

\* the larger of the two ceilings taken instead of the smaller
allowedDebtOf_Max(maxDebtRevenueRule, dscrPV) ==
  MathMax(Zero, MathMax(maxDebtRevenueRule, dscrPV))

allowedDebtOf(maxDebtRevenueRule, dscrPV) ==
  MathMax(Zero, MathMin(maxDebtRevenueRule, dscrPV))

\* the two ceilings compared with a tolerance relative to the statutory one
bindingOf_Relative(allowedDebt, maxDebtRevenueRule) ==
  IF Le(MathAbs(Sub(allowedDebt, maxDebtRevenueRule)),
        Mul(Frac(1, 1000000), MathAbs(maxDebtRevenueRule)))
  THEN "75% of prior revenue" ELSE "DSCR constraint"

bindingOf(allowedDebt, maxDebtRevenueRule) ==
  IF Lt(MathAbs(Sub(allowedDebt, maxDebtRevenueRule)), Frac(1, 1000000))
  THEN "75% of prior revenue" ELSE "DSCR constraint"

computeCapacity(v, i) ==
  LET totalRevenue       == TotalRevenue(v, i)
      nettFinancing      == getNettFinancing(i)
      totalOpex          == TotalOpex(v, i)
      NOI                == NOIOf(totalRevenue, nettFinancing, totalOpex)
      maxDebtRevenueRule == maxDebtRevenueRuleOf(totalRevenue)
      maxAnnualDS        == maxAnnualDSOf(NOI, i)
      dscrPV             == dscrPVOf(pvAnnuityAfterGraceOf(i, maxAnnualDS),
                                     capFromInterestOnlyOf(i, maxAnnualDS))
      allowedDebt        == allowedDebtOf(maxDebtRevenueRule, dscrPV)
  IN  [NOI |-> NOI, totalRevenue |-> totalRevenue, nettFinancing |-> nettFinancing,
       totalOpex |-> totalOpex, maxDebtRevenueRule |-> maxDebtRevenueRule,
       maxAnnualDS |-> maxAnnualDS, dscrPV |-> dscrPV, allowedDebt |-> allowedDebt,
       binding |-> bindingOf(allowedDebt, maxDebtRevenueRule)]

\* ---- buildSchedule: the values fixed before the year loop

\* the row count one short of the term
nOf_OneShort(i) ==
  IF MathFloor(Q(i.termYears)) - 1 > 0 THEN MathFloor(Q(i.termYears)) - 1 ELSE 0

nOf(i) == IF MathFloor(Q(i.termYears)) > 0 THEN MathFloor(Q(i.termYears)) ELSE 0

amortYearsOf(i) ==
  IF MathFloor(Q(i.termYears - i.graceYears)) > 0
  THEN MathFloor(Q(i.termYears - i.graceYears)) ELSE 0

\* the principal the schedule amortizes: the second argument in finance.ts,
\* min(finalDebtTaken, allowedDebt) of the input record in the later revision
\* the ceiling amortized whatever the requested draw
actualDebtOf_Ceiling(v, i, allowedDebtArg) ==
  IF v = "finance_ts" THEN allowedDebtArg ELSE i.allowedDebt

actualDebtOf(v, i, allowedDebtArg) ==
  IF v = "finance_ts" THEN allowedDebtArg ELSE MathMin(i.finalDebtTaken, i.allowedDebt)

annuityPmtOf(i, actualDebt) ==
  IF i.paymentType = "annuity" /\ amortYearsOf(i) > 0
  THEN pmt(i.rate, amortYearsOf(i), actualDebt, Zero, Zero) ELSE Zero

\* the equal instalment spread over the whole term, grace years included
epPrincipalOf_WholeTerm(i, actualDebt) ==
  IF i.paymentType = "equal_principal" /\ amortYearsOf(i) > 0
  THEN Div(actualDebt, Q(i.termYears)) ELSE Zero

epPrincipalOf(i, actualDebt) ==
  IF i.paymentType = "equal_principal" /\ amortYearsOf(i) > 0
  THEN Div(actualDebt, Q(amortYearsOf(i))) ELSE Zero

\* ---- buildSchedule: one year

\* grace membership tested with < instead of <=
inGraceOf_Strict(i, y) == y < i.graceYears

inGraceOf(i, y) == y <= i.graceYears

\* interest charged on the running balance for every debt type
interestOf_Balance(i, y, actualDebt, prevBeg) ==
  IF y <= i.termYears THEN Mul(prevBeg, i.rate) ELSE Zero

interestOf(i, y, actualDebt, prevBeg) ==
  IF y <= i.termYears
  THEN (IF i.debtType = "bond" THEN Mul(actualDebt, i.rate) ELSE Mul(prevBeg, i.rate))
  ELSE Zero

\* principal paid in the grace years too
principalOf_NoGrace(i, y, actualDebt, prevBeg, interest) ==
  IF y <= i.termYears
  THEN IF i.debtType = "bond"
       THEN MathMax(Zero, MathMin(prevBeg, Div(actualDebt, Q(i.termYears))))
       ELSE IF i.paymentType = "annuity"
            THEN MathMax(Zero, MathMin(prevBeg, Sub(annuityPmtOf(i, actualDebt), interest)))
            ELSE MathMax(Zero, MathMin(prevBeg, epPrincipalOf(i, actualDebt)))
  ELSE Zero

\* the whole level payment (or equal instalment) booked as principal, not clamped
\* to the balance
principalOf_Unclamped(i, y, actualDebt, prevBeg, interest) ==
  IF ~inGraceOf(i, y) /\ y <= i.termYears
  THEN IF i.debtType = "bond"
       THEN MathMax(Zero, Div(actualDebt, Q(i.termYears)))
       ELSE IF i.paymentType = "annuity"
            THEN MathMax(Zero, annuityPmtOf(i, actualDebt))
            ELSE MathMax(Zero, epPrincipalOf(i, actualDebt))
  ELSE Zero

principalOf(i, y, actualDebt, prevBeg, interest) ==
  IF ~inGraceOf(i, y) /\ y <= i.termYears
  THEN IF i.debtType = "bond"
       THEN MathMax(Zero, MathMin(prevBeg, Div(actualDebt, Q(i.termYears))))
       ELSE IF i.paymentType = "annuity"
            THEN MathMax(Zero, MathMin(prevBeg, Sub(annuityPmtOf(i, actualDebt), interest)))
            ELSE MathMax(Zero, MathMin(prevBeg, epPrincipalOf(i, actualDebt)))
  ELSE Zero

debtServiceOf(i, y, interest, principal) ==
  IF inGraceOf(i, y) THEN interest ELSE Add(interest, principal)

\* the look-ahead taken from this year's beginning balance, not next year's
nextYearDSOf_ThisBalance(i, y, actualDebt, prevBeg, principal) ==
  IF y < nOf(i)
  THEN LET nextBeg      == prevBeg
           nextInterest == IF i.debtType = "bond" THEN Mul(actualDebt, i.rate)
                           ELSE Mul(nextBeg, i.rate)
           nextPrincipal ==
             IF y + 1 <= i.graceYears THEN Zero
             ELSE IF i.debtType = "bond"
                  THEN MathMax(Zero, MathMin(nextBeg, Div(actualDebt, Q(i.termYears))))
             ELSE IF i.paymentType = "annuity" /\ amortYearsOf(i) > 0
                  THEN MathMax(Zero, MathMin(nextBeg,
                                 Sub(annuityPmtOf(i, actualDebt), nextInterest)))
             ELSE IF amortYearsOf(i) > 0
                  THEN MathMax(Zero, MathMin(nextBeg, epPrincipalOf(i, actualDebt)))
             ELSE Zero
       IN  IF y + 1 <= i.graceYears THEN nextInterest ELSE Add(nextInterest, nextPrincipal)
  ELSE Zero

nextYearDSOf(i, y, actualDebt, prevBeg, principal) ==
  IF y < nOf(i)
  THEN LET nextBeg      == MathMax(Sub(prevBeg, principal), Zero)
           nextInterest == IF i.debtType = "bond" THEN Mul(actualDebt, i.rate)
                           ELSE Mul(nextBeg, i.rate)
           nextPrincipal ==
             IF y + 1 <= i.graceYears THEN Zero
             ELSE IF i.debtType = "bond"
                  THEN MathMax(Zero, MathMin(nextBeg, Div(actualDebt, Q(i.termYears))))
             ELSE IF i.paymentType = "annuity" /\ amortYearsOf(i) > 0
                  THEN MathMax(Zero, MathMin(nextBeg,
                                 Sub(annuityPmtOf(i, actualDebt), nextInterest)))
             ELSE IF amortYearsOf(i) > 0
                  THEN MathMax(Zero, MathMin(nextBeg, epPrincipalOf(i, actualDebt)))
             ELSE Zero
       IN  IF y + 1 <= i.graceYears THEN nextInterest ELSE Add(nextInterest, nextPrincipal)
  ELSE Zero

\* the reserve funded by the signed gap, without the floor at zero
reserveAllocOf_NoFloor(i, reserveTarget, reserveBeg) ==
  Mul(Sub(reserveTarget, reserveBeg), i.reserveRatio)

reserveAllocOf(i, reserveTarget, reserveBeg) ==
  Mul(MathMax(Sub(reserveTarget, reserveBeg), Zero), i.reserveRatio)

\* the coverage ratio guarded with >= 0 instead of > 0
dscrOf_GeZero(availForDS, debtService) ==
  IF Ge(debtService, Zero) THEN Div(availForDS, debtService) ELSE NULL

dscrOf(availForDS, debtService) ==
  IF Gt(debtService, Zero) THEN Div(availForDS, debtService) ELSE NULL

\* the balance advanced with the principal added instead of subtracted
advanceOf_Added(prevBeg, principal) == MathMax(Add(prevBeg, principal), Zero)

\* advance: the next year's beginning balance
advanceOf(prevBeg, principal) == MathMax(Sub(prevBeg, principal), Zero)

RowOf(i, y, actualDebt, prevBeg, revenue, opex, reserveBeg) ==
  LET interest      == interestOf(i, y, actualDebt, prevBeg)
      principal     == principalOf(i, y, actualDebt, prevBeg, interest)
      debtService   == debtServiceOf(i, y, interest, principal)
      reserveTarget == nextYearDSOf(i, y, actualDebt, prevBeg, principal)
      reserveAlloc  == reserveAllocOf(i, reserveTarget, reserveBeg)
      reserveEnd    == Add(reserveBeg, reserveAlloc)
      availForDS    == Sub(revenue, opex)
  IN  [year |-> y, begBal |-> prevBeg, interest |-> interest, principal |-> principal,
       debtService |-> debtService, revenue |-> revenue, opex |-> opex,
       availForDS |-> availForDS, dscr |-> dscrOf(availForDS, debtService),
       reserveTarget |-> reserveTarget, reserveAlloc |-> reserveAlloc,
       reserveBeg |-> reserveBeg, reserveEnd |-> reserveEnd,
       surplus |-> Sub(Sub(Sub(revenue, opex), debtService), reserveAlloc)]

\* ---- minDSCR(rows)

RECURSIVE minDSCRFrom(_, _, _)
minDSCRFrom(rs, k, min) ==
  IF k > Len(rs) THEN min
  ELSE minDSCRFrom(rs, k + 1,
         IF Gt(rs[k].debtService, Zero) /\ rs[k].dscr # NULL
         THEN MathMin(min, rs[k].dscr) ELSE min)

\* the running minimum returned as it is, without the isFinite test
minDSCR_NoSentinel(rs) == minDSCRFrom(rs, 1, PosInf)

minDSCR(rs) ==
  LET min == minDSCRFrom(rs, 1, PosInf)
  IN  IF IsFinite(min) THEN min ELSE Zero

\* --------------------------------------------------------------- inputs

MaxTerm  == 3
MaxGrace == 3

Half == Frac(1, 2)

Rates == {Neg(Half), Zero, Half, One}

\* fields a specification does not vary
Fixed ==
  [localRevenuePAD |-> Q(12), balancingFundPerimbangan |-> Zero,
   otherTransferCentral |-> Zero, transferSharingTax |-> Zero,
   otherFinancialAid |-> Zero, otherLegalRevenue |-> Zero,
   financingReceipts |-> Zero, financingExpenditures |-> Zero,
   operatingExpenses |-> Zero, personnelExpenses |-> Zero,
   goodsServicesExpenses |-> Zero, capitalExpenditures |-> Zero,
   revGrowth |-> Zero, opexGrowth |-> Zero, rate |-> Half,
   termYears |-> 1, graceYears |-> 0,
   paymentType |-> "annuity", debtType |-> "ptsmi_other",
   allowedDebt |-> Zero, finalDebtTaken |-> Zero,
   reserveRatio |-> One, minDSCR |-> Q(2), initReserve |-> Zero]

\* the record f with the fields of g overriding
Over(f, g) == [k \in DOMAIN f |-> IF k \in DOMAIN g THEN g[k] ELSE f[k]]

\* the worked scenario of the documentation in units of 1e9: revenue 1000, opex 800,
\* coverage floor 2.5, two grace years
ScaledScenario ==
  Over(Fixed, [localRevenuePAD |-> Q(1000), personnelExpenses |-> Q(800),
               minDSCR |-> Frac(5, 2), rate |-> Half,
               termYears |-> 3, graceYears |-> 2])

\* amounts large enough for one currency unit to be below 1e-6 of the ceiling
LargeAmounts ==
  Over(Fixed, [localRevenuePAD |-> Q(4000000), personnelExpenses |-> Q(1000001),
               minDSCR |-> One, rate |-> Zero, termYears |-> 1])

\* input records of the page built on src/lib/finance.ts: the capacity inputs vary,
\* the schedule amortizes the calculated ceiling
InputsLib ==
  { Over(Fixed, g) : g \in
      [localRevenuePAD : {Q(-4), Zero, Q(12)},
       financingExpenditures : {Zero, Q(6)},
       personnelExpenses : {Q(8), Q(20)},
       opexGrowth : {Zero, Half},
       rate : Rates,
       termYears : 0..MaxTerm, graceYears : 0..MaxGrace,
       paymentType : {"annuity", "equal_principal"},
       minDSCR : {Q(-1), Zero, One, Q(2)}] }
  \cup {ScaledScenario, LargeAmounts}

\* an override of 0 next to a non-zero breakdown
ZeroOverride ==
  Over(Fixed, [operatingExpenses |-> Zero, personnelExpenses |-> Q(8),
               allowedDebt |-> Q(8), finalDebtTaken |-> Q(6), termYears |-> 2])

\* a record without the single operating-expense line (the field undefined)
NoOverride ==
  Over(Fixed, [operatingExpenses |-> <<>>, personnelExpenses |-> Q(8),
               goodsServicesExpenses |-> One,
               allowedDebt |-> Q(8), finalDebtTaken |-> Q(6), termYears |-> 2])

\* input records of the later revision: the schedule inputs vary, the principal is
\* min(finalDebtTaken, allowedDebt) of the record
InputsRev ==
  { Over(Fixed, g) : g \in
      [operatingExpenses : {Q(4), Q(16)},
       rate : Rates,
       termYears : 0..MaxTerm, graceYears : 0..MaxGrace,
       paymentType : {"annuity", "equal_principal"},
       debtType : {"bond", "ptsmi_other"},
       allowedDebt : {Q(8)},
       finalDebtTaken : {Q(-6), Zero, Q(6), Q(10)},
       reserveRatio : {Neg(Half), Zero, One},
       initReserve : {Q(-2), Q(3)}] }
  \cup {ZeroOverride, NoOverride}

\* ---------------------------------------------------------- state machine

VARIABLES
  version,     \* which revision of the engine and page runs
  inp,         \* the input record (React state `inputs`)
  pc,          \* position in the recomputation
  cap,         \* result of computeCapacity
  actualDebt,  \* principal the schedule amortizes
  y,           \* loop counter of buildSchedule
  prevBeg, revenue, opex, reserveBeg,   \* loop state of buildSchedule
  rows,        \* rows pushed so far
  minD,        \* result of minDSCR(rows)
  tvm          \* arguments and results of direct calls of pmt and pv

vars == <<version, inp, pc, cap, actualDebt, y, prevBeg, revenue, opex, reserveBeg, rows, minD, tvm>>

NoCap ==
  [NOI |-> Zero, totalRevenue |-> Zero, nettFinancing |-> Zero, totalOpex |-> Zero,
   maxDebtRevenueRule |-> Zero, maxAnnualDS |-> Zero, dscrPV |-> Zero,
   allowedDebt |-> Zero, binding |-> ""]

\* no direct call of pmt or pv
NoTvm ==
  [rate |-> Zero, nper |-> 0, amount |-> Zero, fv |-> Zero, type |-> Zero,
   pv |-> NULL, pmt |-> NULL, back |-> NULL]

Start(v, S) ==
  /\ version = v
  /\ inp \in S
  /\ pc = "capacity"
  /\ cap = NoCap
  /\ actualDebt = Zero
  /\ y = 0
  /\ prevBeg = Zero /\ revenue = Zero /\ opex = Zero /\ reserveBeg = Zero
  /\ rows = <<>>
  /\ minD = Zero
  /\ tvm = NoTvm

Init    == Start("finance_ts", InputsLib)
InitRev == Start("part_002", InputsRev)

\* const cap = computeCapacity(inputs)
ComputeCapacity ==
  /\ pc = "capacity"
  /\ cap' = computeCapacity(version, inp)
  /\ pc' = "schedule"
  /\ UNCHANGED <<version, inp, actualDebt, y, prevBeg, revenue, opex, reserveBeg, rows, minD, tvm>>

\* buildSchedule up to the loop: the principal and the projections of year 1
BeginSchedule ==
  /\ pc = "schedule"
  /\ actualDebt' = actualDebtOf(version, inp, cap.allowedDebt)
  /\ prevBeg' = actualDebt'
  /\ revenue' = Mul(Add(TotalRevenue(version, inp), getNettFinancing(inp)),
                    Add(One, inp.revGrowth))
  /\ opex' = Mul(TotalOpex(version, inp), Add(One, inp.opexGrowth))
  /\ reserveBeg' = inp.initReserve
  /\ rows' = <<>>
  /\ y' = 1
  /\ pc' = "loop"
  /\ UNCHANGED <<version, inp, cap, minD, tvm>>

\* one iteration of for (let y = 1; y <= n; y++)
ScheduleYear ==
  /\ pc = "loop"
  /\ y <= nOf(inp)
  /\ LET r == RowOf(inp, y, actualDebt, prevBeg, revenue, opex, reserveBeg)
     IN  /\ rows' = Append(rows, r)
         /\ prevBeg' = advanceOf(prevBeg, r.principal)
         /\ revenue' = Mul(revenue, Add(One, inp.revGrowth))
         /\ opex' = Mul(opex, Add(One, inp.opexGrowth))
         /\ reserveBeg' = r.reserveEnd
  /\ y' = y + 1
  /\ UNCHANGED <<version, inp, pc, cap, actualDebt, minD, tvm>>

\* the loop ends; return rows
EndSchedule ==
  /\ pc = "loop"
  /\ y > nOf(inp)
  /\ pc' = "reduce"
  /\ UNCHANGED <<version, inp, cap, actualDebt, y, prevBeg, revenue, opex, reserveBeg, rows, minD, tvm>>

\* const minD = minDSCR(sched)
ReduceMinDSCR ==
  /\ pc = "reduce"
  /\ minD' = minDSCR(rows)
  /\ pc' = "done"
  /\ UNCHANGED <<version, inp, cap, actualDebt, y, prevBeg, revenue, opex, reserveBeg, rows, tvm>>

Next ==
  \/ ComputeCapacity
  \/ BeginSchedule
  \/ ScheduleYear
  \/ EndSchedule
  \/ ReduceMinDSCR

Spec    == Init /\ [][Next]_vars
SpecRev == InitRev /\ [][Next]_vars

\* ----------------------------------------- direct calls of pmt and pv

MaxNper == 4

\* argument tuples of pmt(rate, nper, pv, fv, type) and pv(rate, nper, pmt, fv, type)
TvmArgs ==
  { Over(NoTvm, g) : g \in
      [rate : Rates, nper : -1..MaxNper,
       amount : {Q(-3), Zero, Q(5), Q(12)},
       fv : {Zero, Q(4)}, type : {Zero, One}] }

InitTvm ==
  /\ version = "finance_ts"
  /\ inp = Fixed
  /\ pc = "tvm_pv"
  /\ cap = NoCap
  /\ actualDebt = Zero
  /\ y = 0
  /\ prevBeg = Zero /\ revenue = Zero /\ opex = Zero /\ reserveBeg = Zero
  /\ rows = <<>>
  /\ minD = Zero
  /\ tvm \in TvmArgs

\* pv(rate, nper, amount, fv, type)
CallPv ==
  /\ pc = "tvm_pv"
  /\ tvm' = [tvm EXCEPT !.pv = pv(tvm.rate, tvm.nper, tvm.amount, tvm.fv, tvm.type)]
  /\ pc' = "tvm_pmt"
  /\ UNCHANGED <<version, inp, cap, actualDebt, y, prevBeg, revenue, opex, reserveBeg, rows, minD>>

\* pmt(rate, nper, amount, fv, type)
CallPmt ==
  /\ pc = "tvm_pmt"
  /\ tvm' = [tvm EXCEPT !.pmt = pmt(tvm.rate, tvm.nper, tvm.amount, tvm.fv, tvm.type)]
  /\ pc' = "tvm_back"
  /\ UNCHANGED <<version, inp, cap, actualDebt, y, prevBeg, revenue, opex, reserveBeg, rows, minD>>

\* pmt(rate, nper, pv(rate, nper, amount)) with the defaults fv = 0, type = 0
CallPmtOfPv ==
  /\ pc = "tvm_back"
  /\ tvm' = [tvm EXCEPT !.back = pmt(tvm.rate, tvm.nper,
                                     pv(tvm.rate, tvm.nper, tvm.amount, Zero, Zero),
                                     Zero, Zero)]
  /\ pc' = "tvm_done"
  /\ UNCHANGED <<version, inp, cap, actualDebt, y, prevBeg, revenue, opex, reserveBeg, rows, minD>>

NextTvm ==
  \/ CallPv
  \/ CallPmt
  \/ CallPmtOfPv

SpecTvm == InitTvm /\ [][NextTvm]_vars

\* ------------------------------------------------ decisions of the page

\* const dscrOk = base.minD >= inputs.minDSCR && base.minD > 0
dscrOk(minDv, i) == Ge(minDv, i.minDSCR) /\ Gt(minDv, Zero)

\* the test of the stress panel: stressed.minD >= inputs.minDSCR
stressedOk(minDv, i) == Ge(minDv, i.minDSCR)

\* ------------------------------------------------- edits of the input form

\* the defaults of the form in proportion: bond, equal principal, a draw below the
\* allowed debt
EditStart ==
  Over(Fixed, [operatingExpenses |-> Q(4), termYears |-> 2,
               paymentType |-> "equal_principal", debtType |-> "bond",
               allowedDebt |-> Q(8), finalDebtTaken |-> Q(6)])

\* values typed into the two debt fields
DrawsTyped    == {Q(2), Q(6), Q(10)}
CeilingsTyped == {Q(4), Q(8)}

InitEdit == Start("part_002", {EditStart})

\* setInputs(i): the state is replaced and the memoized results are recomputed
setInputs(i) ==
  /\ pc = "done"
  /\ inp' = i
  /\ pc' = "capacity"
  /\ cap' = NoCap
  /\ actualDebt' = Zero
  /\ y' = 0
  /\ prevBeg' = Zero /\ revenue' = Zero /\ opex' = Zero /\ reserveBeg' = Zero
  /\ rows' = <<>>
  /\ minD' = Zero
  /\ UNCHANGED <<version, tvm>>

\* onChange of FINAL DEBT TAKEN
SetFinalDebtTaken ==
  \E v \in DrawsTyped :
    setInputs([inp EXCEPT !.finalDebtTaken = MathMin(v, inp.allowedDebt)])

\* onChange of ALLOWED DEBT
SetAllowedDebt ==
  \E v \in CeilingsTyped : setInputs([inp EXCEPT !.allowedDebt = v])

\* onChange of Loan Term (years)
SetTermYears ==
  \E v \in 0..MaxTerm :
    setInputs([inp EXCEPT !.termYears = IF MathFloor(Q(v)) > 1 THEN MathFloor(Q(v)) ELSE 1])

\* onChange of the debt type select
SetDebtType ==
  \E v \in {"bond", "ptsmi_other"} : setInputs([inp EXCEPT !.debtType = v])

NextEdit ==
  \/ Next
  \/ SetFinalDebtTaken
  \/ SetAllowedDebt
  \/ SetTermYears
  \/ SetDebtType

SpecEdit == InitEdit /\ [][NextEdit]_vars

\* ------------------------------------------------------------------ claims

CapComputed == pc # "capacity"
Rows == 1..Len(rows)

\* C1: whenever total revenue is >= 0, the allowedDebt returned by computeCapacity
\* is <= 0.75 * totalRevenue.
C1_StatutoryCap ==
  (CapComputed /\ Ge(cap.totalRevenue, Zero))
    => Le(cap.allowedDebt, Mul(Frac(3, 4), cap.totalRevenue))

\* C2: the allowedDebt returned by computeCapacity is a number >= 0 for every
\* input record, minDSCR == 0 included.
C2_CeilingNonNegative ==
  CapComputed => Ge(cap.allowedDebt, Zero)

ValidPrincipal == IsFinite(actualDebt) /\ Ge(actualDebt, Zero)

BalanceMonotone ==
  \A k \in Rows :
    /\ Ge(rows[k].begBal, Zero)
    /\ k < Len(rows) => Le(rows[k + 1].begBal, rows[k].begBal)

\* C3 (as stated): in every schedule, for every principal passed in, each row's
\* beginning balance is >= 0 and begBal[y+1] <= begBal[y].
C3_BalanceMonotoneAnyPrincipal == BalanceMonotone

\* C3 (amended): for every finite principal >= 0, each row's beginning balance
\* is >= 0 and begBal[y+1] <= begBal[y], for every debt type and payment type.
C3_BalanceMonotone == ValidPrincipal => BalanceMonotone

C3_Witness ==
  /\ Len(rows) >= 2
  /\ Gt(actualDebt, Zero)
  /\ Lt(rows[2].begBal, rows[1].begBal)

PrincipalWithinBalance ==
  \A k \in Rows :
    /\ Le(rows[k].principal, rows[k].begBal)
    /\ Ge(Sub(rows[k].begBal, rows[k].principal), Zero)

\* C4 (as stated): in every row of every schedule principal[y] <= begBal[y], so
\* begBal[y] - principal[y] is never negative.
C4_PrincipalWithinAnyBalance == PrincipalWithinBalance

\* C4 (amended): in every row of a schedule built on a finite principal >= 0,
\* principal[y] <= begBal[y] and begBal[y] - principal[y] >= 0.
C4_PrincipalWithinBalance == ValidPrincipal => PrincipalWithinBalance

C4_Witness ==
  \E k \in Rows :
    /\ Gt(rows[k].principal, Zero)
    /\ rows[k].principal = rows[k].begBal
    /\ Gt(inp.rate, Zero)
    /\ inp.paymentType = "annuity" /\ inp.debtType = "ptsmi_other"

\* C5: for every row with year y <= graceYears, principal[y] == 0 and
\* debtService[y] == interest[y], for every debt type and payment type.
C5_GraceCorrectness ==
  \A k \in Rows :
    rows[k].year <= inp.graceYears
      => /\ rows[k].principal = Zero
         /\ rows[k].debtService = rows[k].interest

C5_Witness ==
  /\ \E k \in Rows : rows[k].year = inp.graceYears /\ Gt(rows[k].interest, Zero)
  /\ \E k \in Rows : rows[k].year > inp.graceYears /\ Gt(rows[k].principal, Zero)

DscrNullity ==
  \A k \in Rows :
    /\ rows[k].dscr = NULL <=> StrictEq(rows[k].debtService, Zero)
    /\ rows[k].dscr # NULL
         => rows[k].dscr = Div(rows[k].availForDS, rows[k].debtService)

\* C6 (as stated): in every row of every schedule dscr[y] is null exactly when
\* debtService[y] == 0, and otherwise equals availForDS[y] / debtService[y].
C6_DscrNullExactlyAtZero == DscrNullity

\* C6 (amended): in every row of a schedule built on a finite principal >= 0 at
\* a rate >= 0, dscr[y] is null exactly when debtService[y] == 0, and otherwise
\* equals availForDS[y] / debtService[y].
C6_DscrNullity == (ValidPrincipal /\ Ge(inp.rate, Zero)) => DscrNullity

C6_Witness ==
  /\ Ge(inp.rate, Zero) /\ Gt(actualDebt, Zero)
  /\ \E k \in Rows : rows[k].dscr = NULL /\ rows[k].debtService = Zero
  /\ \E k \in Rows : rows[k].dscr # NULL /\ Gt(rows[k].debtService, Zero)

ReserveNonNegative ==
  \A k \in Rows :
    /\ Ge(rows[k].reserveAlloc, Zero)
    /\ rows[k].reserveEnd = Add(rows[k].reserveBeg, rows[k].reserveAlloc)

\* C7 (as stated): in every row reserveAlloc[y] >= 0 and reserveEnd[y] ==
\* reserveBeg[y] + reserveAlloc[y], for every reserveRatio and initReserve.
C7_ReserveNonNegativeAnyRatio == ReserveNonNegative

\* C7 (amended): for every reserveRatio >= 0 (any initReserve, finite principal),
\* reserveAlloc[y] >= 0 and reserveEnd[y] == reserveBeg[y] + reserveAlloc[y].
C7_ReserveNonNegative ==
  (Ge(inp.reserveRatio, Zero) /\ IsFinite(actualDebt)) => ReserveNonNegative

C7_Witness ==
  /\ Gt(inp.reserveRatio, Zero)
  /\ \E k \in Rows : Gt(rows[k].reserveAlloc, Zero)
  /\ \E k \in Rows : rows[k].reserveAlloc = Zero /\ Lt(rows[k].reserveTarget, rows[k].reserveBeg)

SizedOnCeiling ==
  /\ pc \in {"loop", "reduce", "done"}
  /\ actualDebt = cap.allowedDebt
  /\ Gt(inp.minDSCR, Zero)
  /\ Ge(inp.rate, Zero)

\* C8: under annuity amortization of the allowedDebt computeCapacity returns,
\* with minDSCR > 0, rate >= 0 and 0 <= graceYears < termYears, every row whose
\* funds available are at least NOI and whose debtService > 0 has
\* dscr >= minDSCR; when that holds of all rows and some debt service is due,
\* minDSCR(rows) >= inputs.minDSCR.
C8_CoverageKept ==
  (SizedOnCeiling /\ inp.paymentType = "annuity" /\ inp.debtType = "ptsmi_other"
     /\ inp.graceYears < inp.termYears)
    => /\ \A k \in Rows :
            (Ge(rows[k].availForDS, cap.NOI) /\ Gt(rows[k].debtService, Zero))
              => Ge(rows[k].dscr, inp.minDSCR)
       /\ (pc = "done"
             /\ (\A k \in Rows : Ge(rows[k].availForDS, cap.NOI))
             /\ (\E k \in Rows : Gt(rows[k].debtService, Zero)))
            => Ge(minD, inp.minDSCR)

C8_Witness ==
  /\ SizedOnCeiling /\ inp.paymentType = "annuity" /\ pc = "done"
  /\ inp.graceYears < inp.termYears /\ Len(rows) >= 2
  /\ Gt(inp.rate, Zero)
  /\ cap.binding = "DSCR constraint"
  /\ \A k \in Rows : Ge(rows[k].availForDS, cap.NOI) /\ Gt(rows[k].debtService, Zero)
  /\ minD = inp.minDSCR

\* C9: when the schedule is built on computeCapacity's allowedDebt (rate >= 0,
\* minDSCR > 0), the debt service of every grace year is <= maxAnnualDS.
C9_GraceWithinCap ==
  SizedOnCeiling
    => \A k \in Rows :
         rows[k].year <= inp.graceYears => Le(rows[k].debtService, cap.maxAnnualDS)

C9_Witness ==
  /\ SizedOnCeiling
  /\ \E k \in Rows :
       /\ rows[k].year <= inp.graceYears
       /\ Gt(rows[k].debtService, Zero)
       /\ Lt(rows[k].debtService, cap.maxAnnualDS)

MinDSCRVals == {Q(-1), Zero, Half, One, Q(2), Q(3)}

AllowedDebtAt(m) == computeCapacity(version, [inp EXCEPT !.minDSCR = m]).allowedDebt

\* C10 (as stated): of any two input records that differ only in minDSCR, the one
\* with the larger minDSCR has an allowedDebt that is not larger.
C10_MonotoneAnyMinDSCR ==
  CapComputed
    => \A m \in MinDSCRVals :
         Gt(m, inp.minDSCR) => ~Gt(AllowedDebtAt(m), cap.allowedDebt)

\* C10 (amended): of any two input records with minDSCR > 0 that differ only in
\* minDSCR, the one with the larger minDSCR has an allowedDebt <= the other's.
C10_MonotoneInMinDSCR ==
  (CapComputed /\ Gt(inp.minDSCR, Zero))
    => \A m \in MinDSCRVals :
         Gt(m, inp.minDSCR) => Le(AllowedDebtAt(m), cap.allowedDebt)

C10_Witness ==
  /\ CapComputed /\ Gt(inp.minDSCR, Zero)
  /\ \E m \in MinDSCRVals :
       Gt(m, inp.minDSCR) /\ Lt(AllowedDebtAt(m), cap.allowedDebt)

\* C11: of two input records that differ only in one revenue component, the one
\* with the larger component has an allowedDebt that is not smaller.
RevenueFields == {"localRevenuePAD", "balancingFundPerimbangan", "otherLegalRevenue"}
RevenueSteps  == {One, Q(4), Q(16)}

AllowedDebtWith(f, x) == computeCapacity(version, [inp EXCEPT ![f] = x]).allowedDebt

C11_MonotoneInRevenue ==
  pc = "schedule" =>
    \A f \in RevenueFields, d \in RevenueSteps :
      ~Lt(AllowedDebtWith(f, Add(inp[f], d)), cap.allowedDebt)

C11_Witness ==
  /\ pc = "schedule"
  /\ Gt(cap.allowedDebt, Zero)
  /\ \E f \in RevenueFields, d \in RevenueSteps :
       Gt(AllowedDebtWith(f, Add(inp[f], d)), cap.allowedDebt)

\* C12: in every row before the last the reserve target equals the debt service
\* recorded in the next row, and the reserve target of the final row is 0.
C12_ReserveLookAhead ==
  \A k \in Rows :
    /\ k < Len(rows) => rows[k].reserveTarget = rows[k + 1].debtService
    /\ k = nOf(inp) => rows[k].reserveTarget = Zero

C12_Witness ==
  /\ pc = "done"
  /\ Len(rows) >= 3
  /\ 0 < inp.graceYears /\ inp.graceYears < inp.termYears
  /\ \A k \in Rows : k < Len(rows) => Gt(rows[k].reserveTarget, Zero)
  /\ \E k \in Rows : rows[k].reserveTarget # rows[k].debtService

\* the ceiling the capacity panel puts next to the draw
ceilingOf(v, i, c) == IF v = "finance_ts" THEN c.allowedDebt ELSE i.allowedDebt

\* the amount the panel FINAL DEBT TAKEN shows
finalDebtShown(v, i, c) == MathMin(i.finalDebtTaken, ceilingOf(v, i, c))

\* C13: the beginning balance of row 1 is min(finalDebtTaken, allowed ceiling), the
\* amount shown as FINAL DEBT TAKEN, and exceeds neither the requested draw nor the
\* ceiling.
C13_CappedDraw ==
  \A k \in Rows :
    k = 1 => /\ rows[k].begBal = finalDebtShown(version, inp, cap)
             /\ Le(rows[k].begBal, inp.finalDebtTaken)
             /\ Le(rows[k].begBal, ceilingOf(version, inp, cap))

C13_Witness ==
  /\ Len(rows) >= 1
  /\ Lt(inp.finalDebtTaken, ceilingOf(version, inp, cap))
  /\ Gt(inp.finalDebtTaken, Zero)
  /\ rows[1].begBal = inp.finalDebtTaken

\* C14: for a bond the interest of every row 1..termYears is the actual principal
\* times the rate, whatever the balance of the row.
C14_BondInterestConstant ==
  inp.debtType = "bond" =>
    \A k \in Rows : rows[k].interest = Mul(actualDebt, inp.rate)

C14_Witness ==
  /\ inp.debtType = "bond"
  /\ Len(rows) >= 2
  /\ Lt(rows[2].begBal, rows[1].begBal)
  /\ Gt(rows[2].interest, Zero)
  /\ rows[2].interest = rows[1].interest

\* C15: with rate 0, termYears n > 0 and a principal P >= 0 every row has interest
\* 0 for every payment type, debt type and grace length, and with no grace every
\* row has principal P / n whatever the payment type.
C15_ZeroRate ==
  (inp.rate = Zero /\ inp.termYears > 0 /\ IsFinite(actualDebt) /\ Ge(actualDebt, Zero)) =>
    \A k \in Rows :
      /\ rows[k].interest = Zero
      /\ inp.graceYears = 0 => rows[k].principal = Div(actualDebt, Q(inp.termYears))

C15_Witness ==
  /\ inp.rate = Zero /\ inp.graceYears = 0
  /\ inp.paymentType = "annuity" /\ inp.debtType = "ptsmi_other"
  /\ Gt(actualDebt, Zero)
  /\ Len(rows) >= 2 /\ Len(rows) = inp.termYears
  /\ rows[Len(rows)].principal = rows[Len(rows)].begBal

TvmDone == pc = "tvm_done"

\* C16: for rate > 0, n > 0 and P > 0 (fv = 0, type = 0) the payment computed from
\* the present value of P, pmt(rate, n, pv(rate, n, P)), is P again.
C16_AnnuityPvInverse ==
  (TvmDone /\ Gt(tvm.rate, Zero) /\ tvm.nper > 0 /\ Gt(tvm.amount, Zero))
    => tvm.back = tvm.amount

C16_Witness ==
  /\ TvmDone
  /\ tvm.rate = Half /\ tvm.nper >= 3 /\ tvm.amount = Q(12)
  /\ tvm.back = Q(12)
  /\ tvm.fv = Zero /\ tvm.type = Zero /\ Lt(tvm.pv, Q(24))

\* C17: pmt and pv return 0 whenever the number of periods is <= 0, for every
\* rate (0 included), amount and future value.
C17_NoPeriods ==
  (TvmDone /\ tvm.nper <= 0) => (tvm.pmt = Zero /\ tvm.pv = Zero)

C17_Witness ==
  /\ TvmDone
  /\ tvm.nper = 0 /\ tvm.rate = Zero
  /\ Gt(tvm.amount, Zero) /\ Gt(tvm.fv, Zero)
  /\ tvm.pmt = Zero /\ tvm.pv = Zero

\* C18: with rate 0 and n > 0, pmt(0, n, P, fv) is (P + fv) / n and
\* pv(0, n, payment, fv) is payment * n + fv; the rate-based formula, which divides
\* by zero there, does not produce the result.
C18_ZeroRatePrimitives ==
  (TvmDone /\ tvm.rate = Zero /\ tvm.nper > 0) =>
    /\ tvm.pmt = Div(Add(tvm.amount, tvm.fv), Q(tvm.nper))
    /\ tvm.pv = Add(Mul(tvm.amount, Q(tvm.nper)), tvm.fv)
    /\ IsFinite(tvm.pmt) /\ IsFinite(tvm.pv)

C18_Witness ==
  /\ TvmDone
  /\ tvm.rate = Zero /\ tvm.nper = 3
  /\ tvm.amount = Q(5) /\ tvm.fv = Q(4) /\ tvm.type = One
  /\ tvm.pmt = Q(3) /\ tvm.pv = Q(19)

\* C19: for every input record with minDSCR # 0 computeCapacity returns
\* NOI = max(totalRevenue + (financingReceipts - financingExpenditures) - totalOpex, 0),
\* maxDebtRevenueRule = 0.75 * totalRevenue and maxAnnualDS = NOI / minDSCR.
C19_CapacityIntermediates ==
  (CapComputed /\ inp.minDSCR # Zero) =>
    LET rev    == Add(Add(inp.localRevenuePAD, inp.balancingFundPerimbangan),
                      inp.otherLegalRevenue)
        opx    == Add(Add(inp.personnelExpenses, inp.goodsServicesExpenses),
                      inp.capitalExpenditures)
        margin == Sub(Add(rev, Sub(inp.financingReceipts, inp.financingExpenditures)), opx)
        noi    == IF Gt(margin, Zero) THEN margin ELSE Zero
    IN  /\ cap.NOI = noi
        /\ cap.maxDebtRevenueRule = Mul(Frac(3, 4), rev)
        /\ cap.maxAnnualDS = Div(noi, inp.minDSCR)

C19_Witness ==
  /\ CapComputed
  /\ inp.localRevenuePAD = Q(1000) /\ inp.minDSCR = Frac(5, 2)
  /\ cap.NOI = Q(200)
  /\ cap.maxDebtRevenueRule = Q(750)
  /\ cap.maxAnnualDS = Q(80)

Within(a, b, tol) == Le(MathAbs(Sub(a, b)), tol)

\* C20: the binding label is the statutory one if and only if allowedDebt equals
\* maxDebtRevenueRule within a relative tolerance of 1e-6, the coverage one otherwise.
C20_RelativeTolerance ==
  CapComputed =>
    (cap.binding = "75% of prior revenue"
       <=> Within(cap.allowedDebt, cap.maxDebtRevenueRule,
                  Mul(Frac(1, 1000000), MathAbs(cap.maxDebtRevenueRule))))

\* C20 as amended: the binding label is the statutory one if and only if
\* allowedDebt and maxDebtRevenueRule differ by less than 1e-6 in absolute terms.
C20_AbsoluteTolerance ==
  CapComputed =>
    (cap.binding = "75% of prior revenue"
       <=> Lt(MathAbs(Sub(cap.allowedDebt, cap.maxDebtRevenueRule)), Frac(1, 1000000)))

C20_Witness ==
  /\ CapComputed
  /\ cap.binding = "DSCR constraint"
  /\ Gt(cap.allowedDebt, Zero)
  /\ Within(cap.allowedDebt, cap.maxDebtRevenueRule,
            Mul(Frac(1, 1000000), cap.maxDebtRevenueRule))

ScheduleReturned == pc \in {"reduce", "done"}

\* C21: buildSchedule returns exactly termYears rows (none when termYears <= 0), in
\* order, the k-th row carrying year == k.
C21_RowCount ==
  /\ \A k \in Rows : rows[k].year = k
  /\ Len(rows) <= (IF inp.termYears > 0 THEN inp.termYears ELSE 0)
  /\ ScheduleReturned => Len(rows) = (IF inp.termYears > 0 THEN inp.termYears ELSE 0)

C21_Witness ==
  /\ ScheduleReturned
  /\ inp.termYears >= 3
  /\ Len(rows) = inp.termYears
  /\ rows[Len(rows)].year = inp.termYears

\* rows the reducer takes into account
Qualifying == { k \in Rows : Gt(rows[k].debtService, Zero) /\ rows[k].dscr # NULL }

\* C22: minDSCR(rows) is the minimum dscr over exactly the rows with debtService > 0
\* and a non-null dscr, and 0 when no row qualifies; the other rows have no
\* influence on the result.
C22_MinOverQualifying ==
  pc = "done" =>
    IF Qualifying = {} THEN minD = Zero
    ELSE /\ \E k \in Qualifying : minD = rows[k].dscr
         /\ \A k \in Qualifying : Le(minD, rows[k].dscr)

C22_Witness ==
  /\ pc = "done"
  /\ \E k \in Qualifying : Lt(minD, rows[k].dscr)
  /\ \E k \in Rows : k \notin Qualifying
  /\ minD # Zero

InterestOnly ==
  \A k \in Rows :
    /\ rows[k].principal = Zero
    /\ rows[k].debtService = rows[k].interest
    /\ rows[k].begBal = actualDebt

\* C23 (as stated): when termYears <= graceYears every row has principal == 0 and
\* debtService == interest, and the beginning balance of every row is the initial
\* principal.
C23_DegenerateGraceAnyPrincipal ==
  inp.termYears <= inp.graceYears => InterestOnly

\* C23 (amended): the same for every finite initial principal >= 0.
C23_DegenerateGrace ==
  (inp.termYears <= inp.graceYears /\ ValidPrincipal) => InterestOnly

C23_Witness ==
  /\ inp.termYears <= inp.graceYears
  /\ Len(rows) >= 2
  /\ Gt(actualDebt, Zero) /\ Gt(rows[2].interest, Zero)
  /\ rows[2].begBal = actualDebt
  /\ rows[2].debtService = rows[2].interest

\* C24: equal-principal debt sized to computeCapacity's allowedDebt, with rate > 0,
\* minDSCR > 0 and 0 <= graceYears < termYears, has debtService <= maxAnnualDS in
\* every post-grace row, hence dscr >= minDSCR in every row whose funds available
\* are NOI.
C24_EqualPrincipalCoverage ==
  (SizedOnCeiling /\ inp.paymentType = "equal_principal" /\ inp.debtType = "ptsmi_other"
     /\ Gt(inp.rate, Zero) /\ inp.graceYears < inp.termYears)
    => \A k \in Rows :
         /\ k > inp.graceYears => Le(rows[k].debtService, cap.maxAnnualDS)
         /\ (rows[k].availForDS = cap.NOI /\ Gt(rows[k].debtService, Zero))
              => Ge(rows[k].dscr, inp.minDSCR)

\* C25: when graceYears >= termYears (amortYears == 0) and rate > 0 the
\* DSCR-implied ceiling is the interest-only cap, dscrPV == maxAnnualDS / rate
\* (stated here for a term of at least one year and minDSCR > 0, where maxAnnualDS
\* is a finite amount).
C25_InterestOnlyCap ==
  (CapComputed /\ inp.graceYears >= inp.termYears /\ inp.termYears > 0
     /\ Gt(inp.rate, Zero) /\ Gt(inp.minDSCR, Zero))
    => cap.dscrPV = Div(cap.maxAnnualDS, inp.rate)

\* the years after grace within the term
PostGrace(k) == k > inp.graceYears /\ k <= inp.termYears

\* actualPrincipal / amortYears and pmt(rate, amortYears, actualPrincipal), written
\* out on the inputs
RuleAmount(k) ==
  LET m == inp.termYears - inp.graceYears
  IN  IF inp.debtType = "bond" THEN Div(actualDebt, Q(inp.termYears))
      ELSE IF inp.paymentType = "equal_principal" THEN Div(actualDebt, Q(m))
      ELSE IF inp.rate = Zero THEN Div(actualDebt, Q(m))
      ELSE LET pow == MathPow(Add(One, inp.rate), m)
           IN  Sub(Div(Mul(inp.rate, Mul(actualDebt, pow)), Sub(pow, One)),
                   rows[k].interest)

\* C26 (as stated): the post-grace principal is min(begBal, actualPrincipal /
\* termYears) under bond, and under outstanding balance min(begBal, actualPrincipal
\* / amortYears) for equal_principal and min(begBal, levelPayment - interest) for
\* annuity, with amortYears = termYears - graceYears.
C26_PrincipalRuleUnfloored ==
  \A k \in Rows :
    PostGrace(k) => rows[k].principal = MathMin(rows[k].begBal, RuleAmount(k))

\* C26 (amended): the post-grace principal is that minimum floored at 0.
C26_PrincipalRule ==
  \A k \in Rows :
    PostGrace(k) =>
      rows[k].principal = MathMax(Zero, MathMin(rows[k].begBal, RuleAmount(k)))

C26_Witness ==
  /\ Len(rows) >= 3
  /\ inp.graceYears = 1
  /\ inp.paymentType = "annuity" /\ inp.debtType = "ptsmi_other"
  /\ Gt(inp.rate, Zero)
  /\ Gt(rows[2].principal, Zero)
  /\ Gt(rows[3].principal, rows[2].principal)
  /\ rows[3].principal = rows[3].begBal

\* C27: total opex is the single override figure whenever one is supplied, an
\* override of 0 included, and the sum of the opex components only when none is
\* supplied.
C27_OpexOverride ==
  CapComputed =>
    cap.totalOpex =
      (IF inp.operatingExpenses # NULL THEN inp.operatingExpenses
       ELSE Add(Add(inp.personnelExpenses, inp.goodsServicesExpenses),
                inp.capitalExpenditures))

\* C28: after any sequence of edits of the allowed-debt field, the final-debt-taken
\* field and the other inputs, the stored finalDebtTaken is <= the allowed debt in
\* force.
C28_DrawWithinCeiling == Le(inp.finalDebtTaken, inp.allowedDebt)

\* C29: whenever minDSCR(rows) returns the 0 sentinel (no row with debt service),
\* neither the base compliance check nor the check of the stress panel reports the
\* DSCR requirement as met. A run with rate >= 0 is also the stressed run under
\* zero shocks, whose rate is Math.max(0, rate). Stated for the records the form
\* can hold: a term of at least one year, revenue >= 0.
C29_SentinelGuarded ==
  (pc = "done" /\ Qualifying = {} /\ inp.termYears >= 1 /\ Ge(cap.totalRevenue, Zero))
    => /\ ~dscrOk(minD, inp)
       /\ Ge(inp.rate, Zero) => ~stressedOk(minD, inp)

\* C30: for every debtType and paymentType, with a principal P >= 0, rate >= 0 and
\* 0 <= graceYears < termYears, the balance left after the final row
\* (begBal - principal of the last row) is 0.
C30_FullRepayment ==
  (ScheduleReturned /\ ValidPrincipal /\ Ge(inp.rate, Zero)
     /\ inp.graceYears < inp.termYears)
    => Sub(rows[Len(rows)].begBal, rows[Len(rows)].principal) = Zero

====
